---- MODULE Spec2Model ----
(***************************************************************************)
(* A model of the code-execution engine of run-typescript-skills-mcp:      *)
(* DefaultTypeScriptExecutor.execute (src/src/tools/run-skill-code-impl.ts)*)
(* together with the harness it synthesizes and the child process that     *)
(* runs the harness.                                                       *)
(*                                                                         *)
(* Text is a sequence of one-character strings.  Indices of the string     *)
(* helpers are 0-based, as in JavaScript, so that the decoder reads like   *)
(* the source.                                                             *)
(***************************************************************************)
EXTENDS Integers, Sequences, FiniteSets, TLC

(***************************************************************************)
(* Bounds of the model.                                                    *)
(***************************************************************************)
\* number of execute calls that may be in flight
NumCalls == 2
\* number of console.log calls a submitted body makes before it ends
MaxLogs == 2
\* number of text chunks of a raw stdout given to the decoder applied alone
MaxChunks == 4

(***************************************************************************)
(* JavaScript string primitives.                                           *)
(***************************************************************************)
\* s.slice(a, b) for 0 <= a, 0 <= b
Slice(s, a, b) ==
    LET hi == IF b > Len(s) THEN Len(s) ELSE b
    IN  IF a >= hi THEN <<>> ELSE SubSeq(s, a + 1, hi)

\* s.slice(a)
SliceFrom(s, a) == Slice(s, a, Len(s))

\* whether pat occurs in s at 0-based offset i
OccursAt(s, pat, i) ==
    /\ i >= 0
    /\ i + Len(pat) <= Len(s)
    /\ \A k \in 1..Len(pat) : s[i + k] = pat[k]

\* s.indexOf(pat): the least offset at which pat occurs, -1 when none
IndexOf(s, pat) ==
    LET hits == {i \in 0..(Len(s) - Len(pat)) : OccursAt(s, pat, i)}
    IN  IF hits = {} THEN -1
        ELSE CHOOSE i \in hits : \A j \in hits : i <= j

\* s.includes(pat)
Contains(s, pat) == IndexOf(s, pat) # -1

RECURSIVE Concat(_)
\* the concatenation of a sequence of texts
Concat(ss) == IF ss = <<>> THEN <<>> ELSE Head(ss) \o Concat(Tail(ss))

\* the line break
NL == "\n"

(***************************************************************************)
(* The sentinel token, run-skill-code-impl.ts line 76 (and line 47, where  *)
(* the harness prints it).                                                 *)
(***************************************************************************)
returnMarker ==
    <<"_", "_", "R", "E", "T", "U", "R", "N", "_",
      "V", "A", "L", "U", "E", "_", "_", ":">>

(***************************************************************************)
(* Values a body can return.  A value is a tagged record; undefined is the *)
(* JavaScript undefined, which is not a JSON value.  An object is the      *)
(* sequence of its members in insertion order.                             *)
(***************************************************************************)
Undefined == [t |-> "undefined"]
JNull == [t |-> "null"]
JBool(b) == [t |-> "bool", b |-> b]
JNum(n) == [t |-> "num", n |-> n]
JStr(s) == [t |-> "str", s |-> s]
JArr(a) == [t |-> "arr", a |-> a]
JObj(o) == [t |-> "obj", o |-> o]
Member(k, v) == [k |-> k, v |-> v]

DigitChars == <<"0", "1", "2", "3", "4", "5", "6", "7", "8", "9">>
IsDigit(ch) == \E d \in 1..10 : DigitChars[d] = ch
DigitVal(ch) == (CHOOSE d \in 1..10 : DigitChars[d] = ch) - 1

(***************************************************************************)
(* JSON.stringify, as the harness applies it to the body's resolved value  *)
(* (line 47).  Integers only; a string is quoted with its quote, backslash *)
(* and control characters escaped; an undefined array element is written   *)
(* null and an undefined member is left out.                               *)
(***************************************************************************)
RECURSIVE NatToText(_)
NatToText(n) ==
    IF n < 10 THEN <<DigitChars[n + 1]>>
    ELSE NatToText(n \div 10) \o <<DigitChars[(n % 10) + 1]>>

IntToText(n) == IF n < 0 THEN <<"-">> \o NatToText(-n) ELSE NatToText(n)

EscapeChar(ch) ==
    CASE ch = "\"" -> <<"\\", "\"">>
      [] ch = "\\" -> <<"\\", "\\">>
      [] ch = "\n" -> <<"\\", "n">>
      [] ch = "\t" -> <<"\\", "t">>
      [] ch = "\r" -> <<"\\", "r">>
      [] OTHER -> <<ch>>

\* a quoting that escapes nothing
QuoteRaw(s) == <<"\"">> \o s \o <<"\"">>

Quote(s) == <<"\"">> \o Concat([i \in 1..Len(s) |-> EscapeChar(s[i])]) \o <<"\"">>

RECURSIVE JoinComma(_)
JoinComma(ss) ==
    IF ss = <<>> THEN <<>>
    ELSE IF Len(ss) = 1 THEN ss[1]
    ELSE ss[1] \o <<",">> \o JoinComma(Tail(ss))

RECURSIVE Stringify(_)
\* JSON.stringify(v) for v other than undefined
Stringify(v) ==
    CASE v.t = "null" -> <<"n", "u", "l", "l">>
      [] v.t = "bool" -> IF v.b THEN <<"t", "r", "u", "e">>
                         ELSE <<"f", "a", "l", "s", "e">>
      [] v.t = "num" -> IntToText(v.n)
      [] v.t = "str" -> Quote(v.s)
      [] v.t = "arr" ->
            <<"[">> \o
            JoinComma([i \in 1..Len(v.a) |->
                        IF v.a[i] = Undefined THEN <<"n", "u", "l", "l">>
                        ELSE Stringify(v.a[i])]) \o
            <<"]">>
      [] v.t = "obj" ->
            LET kept == SelectSeq(v.o, LAMBDA m : m.v # Undefined)
            IN  <<"{">> \o
                JoinComma([i \in 1..Len(kept) |->
                            Quote(kept[i].k) \o <<":">> \o Stringify(kept[i].v)]) \o
                <<"}">>

\* '__RETURN_VALUE__:' + JSON.stringify(v): JSON.stringify(undefined) is
\* undefined, which string concatenation renders as the text undefined
StringifyUndefinedAsNull(v) ==
    IF v = Undefined THEN <<"n", "u", "l", "l">> ELSE Stringify(v)

StringifyForConcat(v) ==
    IF v = Undefined THEN <<"u", "n", "d", "e", "f", "i", "n", "e", "d">>
    ELSE Stringify(v)

(***************************************************************************)
(* JSON.parse, as the decoder applies it to the payload (line 84).  A      *)
(* result is [ok |-> FALSE] (a SyntaxError) or [ok |-> TRUE, v, next].     *)
(* Numbers are integers and \u escapes are not read: the texts of this     *)
(* model contain no fraction, exponent or \u.                              *)
(***************************************************************************)
Fail == [ok |-> FALSE]
Ok(v, next) == [ok |-> TRUE, v |-> v, next |-> next]

JsonWs == {" ", "\t", "\n", "\r"}

RECURSIVE SkipWs(_, _)
\* the first 1-based position >= i that holds no whitespace
SkipWs(s, i) ==
    IF i <= Len(s) /\ s[i] \in JsonWs THEN SkipWs(s, i + 1) ELSE i

RECURSIVE ScanDigits(_, _, _)
ScanDigits(s, i, acc) ==
    IF i <= Len(s) /\ IsDigit(s[i])
    THEN ScanDigits(s, i + 1, 10 * acc + DigitVal(s[i]))
    ELSE [v |-> acc, next |-> i]

ParseNumber(s, i) ==
    LET neg == i <= Len(s) /\ s[i] = "-"
        j == IF neg THEN i + 1 ELSE i
    IN  IF j > Len(s) \/ ~IsDigit(s[j]) THEN Fail
        ELSE IF s[j] = "0" THEN Ok(JNum(0), j + 1)
        ELSE LET r == ScanDigits(s, j, 0)
             IN  Ok(JNum(IF neg THEN 0 - r.v ELSE r.v), r.next)

RECURSIVE ScanStr(_, _, _)
\* the characters of a string literal whose opening quote precedes position i
ScanStr(s, i, acc) ==
    IF i > Len(s) THEN Fail
    ELSE IF s[i] = "\"" THEN Ok(acc, i + 1)
    ELSE IF s[i] = "\\" THEN
        IF i + 1 > Len(s) THEN Fail
        ELSE CASE s[i + 1] = "\"" -> ScanStr(s, i + 2, Append(acc, "\""))
               [] s[i + 1] = "\\" -> ScanStr(s, i + 2, Append(acc, "\\"))
               [] s[i + 1] = "/" -> ScanStr(s, i + 2, Append(acc, "/"))
               [] s[i + 1] = "n" -> ScanStr(s, i + 2, Append(acc, "\n"))
               [] s[i + 1] = "t" -> ScanStr(s, i + 2, Append(acc, "\t"))
               [] s[i + 1] = "r" -> ScanStr(s, i + 2, Append(acc, "\r"))
               [] OTHER -> Fail
    ELSE IF s[i] \in {"\n", "\t", "\r"} THEN Fail
    ELSE ScanStr(s, i + 1, Append(acc, s[i]))

\* a member list with key k set to v: a repeated key keeps its place and
\* takes the later value
PutMember(o, k, v) ==
    IF \E i \in 1..Len(o) : o[i].k = k
    THEN [i \in 1..Len(o) |-> IF o[i].k = k THEN Member(k, v) ELSE o[i]]
    ELSE Append(o, Member(k, v))

RECURSIVE ParseValue(_, _)
RECURSIVE ParseElems(_, _, _)
RECURSIVE ParseMembers(_, _, _)

\* the value that starts at position i, which holds no whitespace
ParseValue(s, i) ==
    IF i > Len(s) THEN Fail
    ELSE CASE s[i] = "\"" ->
                LET r == ScanStr(s, i + 1, <<>>)
                IN  IF r.ok THEN Ok(JStr(r.v), r.next) ELSE Fail
           [] s[i] = "[" ->
                LET j == SkipWs(s, i + 1)
                IN  IF j <= Len(s) /\ s[j] = "]" THEN Ok(JArr(<<>>), j + 1)
                    ELSE ParseElems(s, j, <<>>)
           [] s[i] = "{" ->
                LET j == SkipWs(s, i + 1)
                IN  IF j <= Len(s) /\ s[j] = "}" THEN Ok(JObj(<<>>), j + 1)
                    ELSE ParseMembers(s, j, <<>>)
           [] s[i] = "-" \/ IsDigit(s[i]) -> ParseNumber(s, i)
           [] OccursAt(s, <<"t", "r", "u", "e">>, i - 1) -> Ok(JBool(TRUE), i + 4)
           [] OccursAt(s, <<"f", "a", "l", "s", "e">>, i - 1) -> Ok(JBool(FALSE), i + 5)
           [] OccursAt(s, <<"n", "u", "l", "l">>, i - 1) -> Ok(JNull, i + 4)
           [] OTHER -> Fail

\* the rest of an array whose next element starts at position i
ParseElems(s, i, acc) ==
    LET r == ParseValue(s, i)
    IN  IF ~r.ok THEN Fail
        ELSE LET j == SkipWs(s, r.next)
             IN  IF j > Len(s) THEN Fail
                 ELSE IF s[j] = "," THEN ParseElems(s, SkipWs(s, j + 1), Append(acc, r.v))
                 ELSE IF s[j] = "]" THEN Ok(JArr(Append(acc, r.v)), j + 1)
                 ELSE Fail

\* the rest of an object whose next member starts at position i
ParseMembers(s, i, acc) ==
    IF i > Len(s) \/ s[i] # "\"" THEN Fail
    ELSE LET k == ScanStr(s, i + 1, <<>>)
         IN  IF ~k.ok THEN Fail
             ELSE LET c == SkipWs(s, k.next)
                  IN  IF c > Len(s) \/ s[c] # ":" THEN Fail
                      ELSE LET r == ParseValue(s, SkipWs(s, c + 1))
                           IN  IF ~r.ok THEN Fail
                               ELSE LET j == SkipWs(s, r.next)
                                        acc2 == PutMember(acc, k.v, r.v)
                                    IN  IF j > Len(s) THEN Fail
                                        ELSE IF s[j] = ","
                                             THEN ParseMembers(s, SkipWs(s, j + 1), acc2)
                                        ELSE IF s[j] = "}" THEN Ok(JObj(acc2), j + 1)
                                        ELSE Fail

\* JSON.parse(s): [ok |-> TRUE, v |-> value] or [ok |-> FALSE] when it throws
JsonParse(s) ==
    LET r == ParseValue(s, SkipWs(s, 1))
    IN  IF r.ok /\ SkipWs(s, r.next) = Len(s) + 1
        THEN [ok |-> TRUE, v |-> r.v]
        ELSE Fail

(***************************************************************************)
(* The result decoder, run-skill-code-impl.ts lines 72-91.                 *)
(***************************************************************************)
\* lines 83-87: JSON.parse inside try/catch; a SyntaxError leaves undefined
ParseOrUndefined(returnJson) ==
    LET parsed == JsonParse(returnJson)
    IN  IF parsed.ok THEN parsed.v ELSE Undefined

\* line 90, a variant that keeps only the text before the sentinel
CleanDropsTail(stdout, returnIndex, returnLine, returnEnd) ==
    Slice(stdout, 0, returnIndex)

\* line 90, a variant that cuts the payload and keeps its line break
CleanKeepsBreak(stdout, returnIndex, returnLine, returnEnd) ==
    Slice(stdout, 0, returnIndex) \o
    (IF returnEnd = -1 THEN <<>> ELSE SliceFrom(returnLine, returnEnd))

\* line 90: stdout.slice(0, returnIndex) +
\*          (returnEnd === -1 ? '' : returnLine.slice(returnEnd + 1))
Clean(stdout, returnIndex, returnLine, returnEnd) ==
    Slice(stdout, 0, returnIndex) \o
    (IF returnEnd = -1 THEN <<>> ELSE SliceFrom(returnLine, returnEnd + 1))

\* s.lastIndexOf(pat)
LastIndexOf(s, pat) ==
    LET hits == {i \in 0..(Len(s) - Len(pat)) : OccursAt(s, pat, i)}
    IN  IF hits = {} THEN -1
        ELSE CHOOSE i \in hits : \A j \in hits : i >= j

\* lines 73-91 with the last sentinel token honoured instead of the first
DecodeLastToken(stdout) ==
    LET returnIndex == LastIndexOf(stdout, returnMarker)
    IN  IF returnIndex # -1
        THEN LET returnLine == SliceFrom(stdout, returnIndex + Len(returnMarker))
                 returnEnd == IndexOf(returnLine, <<NL>>)
                 returnJson == IF returnEnd = -1 THEN returnLine
                               ELSE Slice(returnLine, 0, returnEnd)
             IN  [returnValue |-> ParseOrUndefined(returnJson),
                  stdout |-> Slice(stdout, 0, returnIndex) \o
                             (IF returnEnd = -1 THEN <<>>
                              ELSE SliceFrom(returnLine, returnEnd + 1))]
        ELSE [returnValue |-> Undefined, stdout |-> stdout]

\* lines 73-91: [returnValue, stdout] from the captured stdout
Decode(stdout) ==
    LET returnIndex == IndexOf(stdout, returnMarker)
    IN  IF returnIndex # -1
        THEN LET returnLine == SliceFrom(stdout, returnIndex + Len(returnMarker))
                 returnEnd == IndexOf(returnLine, <<NL>>)
                 returnJson == IF returnEnd = -1 THEN returnLine
                               ELSE Slice(returnLine, 0, returnEnd)
             IN  [returnValue |-> ParseOrUndefined(returnJson),
                  stdout |-> Clean(stdout, returnIndex, returnLine, returnEnd)]
        ELSE [returnValue |-> Undefined, stdout |-> stdout]

\* the object of lines 93-97
Result(returnValue, stdoutClean, stderr) ==
    [returnValue |-> returnValue, stdout |-> stdoutClean, stderr |-> stderr]

(***************************************************************************)
(* How a call of execute completes.                                        *)
(***************************************************************************)
Pending == [kind |-> "pending"]
Resolved(r) == [kind |-> "resolved", result |-> r]
Rejected(e) == [kind |-> "rejected", error |-> e]

\* lines 70-97 with the decoder's catch missing: a SyntaxError escapes
ReturnDecodeThrows(stdout, stderr, exitCode) ==
    LET returnIndex == IndexOf(stdout, returnMarker)
        returnLine == SliceFrom(stdout, returnIndex + Len(returnMarker))
        returnEnd == IndexOf(returnLine, <<NL>>)
        returnJson == IF returnEnd = -1 THEN returnLine
                      ELSE Slice(returnLine, 0, returnEnd)
        d == Decode(stdout)
    IN  IF returnIndex # -1 /\ ~JsonParse(returnJson).ok
        THEN Rejected("SyntaxError")
        ELSE Resolved(Result(d.returnValue, d.stdout, stderr))

\* lines 70-97 with a check of the exit code added
ReturnChecksExit(stdout, stderr, exitCode) ==
    LET d == Decode(stdout)
    IN  IF exitCode # 0 THEN Rejected("EEXIT")
        ELSE Resolved(Result(d.returnValue, d.stdout, stderr))

\* lines 70-97 with the decoder applied to stderr as well
ReturnDecodesStderr(stdout, stderr, exitCode) ==
    LET d == Decode(stdout)
        e == Decode(stderr)
    IN  Resolved(Result(IF d.returnValue = Undefined THEN e.returnValue
                        ELSE d.returnValue,
                        d.stdout, e.stdout))

\* lines 70-97: after `await proc.exited`, whose value (the exit code) is
\* dropped, the try block returns the decoded result
Return(stdout, stderr, exitCode) ==
    LET d == Decode(stdout)
    IN  Resolved(Result(d.returnValue, d.stdout, stderr))

(***************************************************************************)
(* A submitted body, by what it does when the harness runs it: the texts   *)
(* it passes to console.log, in order, and how it ends: `return v`         *)
(* (v = Undefined: it ends without a return), `throw new Error(msg)`, or   *)
(* a parse error somewhere in its text, in which case nothing runs.  A     *)
(* body that returns may have started work it did not await (a timer, a    *)
(* promise it dropped): late holds the texts that work logs after the      *)
(* body has returned.                                                      *)
(***************************************************************************)
Body(logs, k, v, msg) ==
    [logs |-> logs, k |-> k, v |-> v, msg |-> msg, late |-> <<>>]

\* a body that returns v and leaves work behind that logs the texts of late
BodyLate(logs, v, late) == [Body(logs, "return", v, <<>>) EXCEPT !.late = late]

TextHi == <<"h", "i">>
\* a logged line that is itself a sentinel line with a decodable payload
TextDecoy == returnMarker \o <<"7">>
\* a logged line that is the bare sentinel token
TextToken == returnMarker
TextBoom == <<"b", "o", "o", "m">>

LogTexts == {TextHi, TextDecoy, TextToken, <<>>}

\* what the work a body left behind logs
LateLogs == {<<>>, <<TextHi>>}

Values ==
    { JNum(42), JNum(-7),
      JStr(<<>>), JStr(<<"a", "\n", "\"", "\\">>), JStr(TextDecoy),
      JArr(<<JNum(1), JStr(<<"x">>), JNull>>),
      JObj(<<Member(<<"i", "d">>, JNum(10)),
             Member(<<"t">>, JArr(<<JBool(TRUE), JObj(<<>>)>>))>>),
      Undefined }

ThrowMessages == {TextBoom, TextDecoy}

RECURSIVE SeqsUpTo(_, _)
\* the sequences over S of length at most n
SeqsUpTo(S, n) ==
    IF n = 0 THEN {<<>>}
    ELSE LET shorter == SeqsUpTo(S, n - 1)
         IN  shorter \cup {Append(s, x) : s \in shorter, x \in S}

Bodies ==
    LET logs == SeqsUpTo(LogTexts, MaxLogs)
    IN  {BodyLate(l, v, w) : l \in logs, v \in Values, w \in LateLogs}
        \cup {Body(l, "throw", Undefined, m) : l \in logs, m \in ThrowMessages}
        \cup {Body(l, "parse", Undefined, <<>>) : l \in logs}

\* what the console.log calls of the body write: each text and a line break
Logged(b) == Concat([i \in 1..Len(b.logs) |-> b.logs[i] \o <<NL>>])

\* what the work the body left behind writes, once the body has returned
LateOutput(b) == Concat([i \in 1..Len(b.late) |-> b.late[i] \o <<NL>>])

\* line 47: console.log('__RETURN_VALUE__:' + JSON.stringify(__result))
SentinelLine(v) == returnMarker \o StringifyForConcat(v) \o <<NL>>

\* the harness of lines 39-49 with the sentinel printed in a finally block
ChildStdoutAlwaysSentinel(b) ==
    CASE b.k = "return" -> Logged(b) \o SentinelLine(b.v) \o LateOutput(b)
      [] b.k = "throw" -> Logged(b) \o SentinelLine(Undefined)
      [] b.k = "parse" -> <<>>

\* the harness of lines 39-49 with the sentinel printed when the child exits
ChildStdoutSentinelLast(b) ==
    CASE b.k = "return" -> Logged(b) \o LateOutput(b) \o SentinelLine(b.v)
      [] b.k = "throw" -> Logged(b)
      [] b.k = "parse" -> <<>>

\* the stdout of the child running the harness of lines 39-49: the body's
\* output, then the sentinel line only if the inner async function resolved
\* (line 47 runs as soon as the await of line 43 ends), then whatever the
\* work the body left behind logs before the child exits
ChildStdout(b) ==
    CASE b.k = "return" -> Logged(b) \o SentinelLine(b.v) \o LateOutput(b)
      [] b.k = "throw" -> Logged(b)
      [] b.k = "parse" -> <<>>

ErrorPrefix == <<"e", "r", "r", "o", "r", ":", " ">>
ParseDiagnostic == ErrorPrefix \o <<"E", "x", "p", "e", "c", "t", "e", "d">> \o <<NL>>

\* the stderr of the child: the runtime's report of the unhandled rejection
\* of the outer async function (line 48), or of the parse error
ChildStderr(b) ==
    CASE b.k = "return" -> <<>>
      [] b.k = "throw" -> ErrorPrefix \o b.msg \o <<NL>>
      [] b.k = "parse" -> ParseDiagnostic

\* the exit codes the child can end with: a body that completes may have set
\* process.exitCode; an unhandled rejection or a parse error ends with 1
ChildExitCodes(b) == IF b.k = "return" THEN {0, 3} ELSE {1}

(***************************************************************************)
(* The source splitter, the alias expander and the harness synthesizer,    *)
(* run-skill-code-impl.ts lines 21-49.                                     *)
(***************************************************************************)
\* the characters the regular expression class \s matches inside a line
RegexWs == {" ", "\t", "\r", "\f"}

WordImport == <<"i", "m", "p", "o", "r", "t">>

RECURSIVE SplitOn(_, _, _)
\* code.split('\n'), line 24: cur is the line being read
SplitOn(s, i, cur) ==
    IF i > Len(s) THEN <<cur>>
    ELSE IF s[i] = NL THEN <<cur>> \o SplitOn(s, i + 1, <<>>)
    ELSE SplitOn(s, i + 1, Append(cur, s[i]))

SplitLines(code) == SplitOn(code, 1, <<>>)

RECURSIVE JoinNL(_)
\* lines.join('\n'), lines 40 and 44
JoinNL(ls) ==
    IF ls = <<>> THEN <<>>
    ELSE IF Len(ls) = 1 THEN ls[1]
    ELSE ls[1] \o <<NL>> \o JoinNL(Tail(ls))

RECURSIVE SkipRegexWs(_, _)
\* \s* from 0-based offset i: the offset of the first character it leaves
SkipRegexWs(line, i) ==
    IF i < Len(line) /\ line[i + 1] \in RegexWs
    THEN SkipRegexWs(line, i + 1) ELSE i

\* line 29 with the pattern /^\s*import/
IsImportNoSpace(line) == OccursAt(line, WordImport, SkipRegexWs(line, 0))

\* line 29: /^\s*import\s+/.test(line)
IsImport(line) ==
    LET i == SkipRegexWs(line, 0)
    IN  /\ OccursAt(line, WordImport, i)
        /\ i + Len(WordImport) < Len(line)
        /\ line[i + Len(WordImport) + 1] \in RegexWs

RECURSIVE ReplaceAlias(_, _, _)
\* line 31: line.replace(/['"]~\//g, `'${homeDir}/`) from 1-based position i;
\* homeDir holds no $, which the replacement text would read as a pattern
ReplaceAlias(line, i, homeDir) ==
    IF i > Len(line) THEN <<>>
    ELSE IF /\ line[i] \in {"'", "\""}
            /\ i + 2 <= Len(line)
            /\ line[i + 1] = "~"
            /\ line[i + 2] = "/"
         THEN <<"'">> \o homeDir \o <<"/">> \o ReplaceAlias(line, i + 3, homeDir)
         ELSE <<line[i]>> \o ReplaceAlias(line, i + 1, homeDir)

\* line 31: expandedLine
Expand(line, homeDir) == ReplaceAlias(line, 1, homeDir)

RECURSIVE PartitionExpandsAll(_, _)
\* lines 28-36 with the alias expanded in body lines too
PartitionExpandsAll(lines, homeDir) ==
    IF lines = <<>> THEN [imports |-> <<>>, codeLines |-> <<>>]
    ELSE LET rest == PartitionExpandsAll(Tail(lines), homeDir)
             line == Head(lines)
         IN  IF IsImport(line)
             THEN [rest EXCEPT !.imports = <<Expand(line, homeDir)>> \o @]
             ELSE [rest EXCEPT !.codeLines = <<Expand(line, homeDir)>> \o @]

RECURSIVE PartitionNoSpace(_, _)
\* lines 28-36 with the test of line 29 not asking for whitespace
PartitionNoSpace(lines, homeDir) ==
    IF lines = <<>> THEN [imports |-> <<>>, codeLines |-> <<>>]
    ELSE LET rest == PartitionNoSpace(Tail(lines), homeDir)
             line == Head(lines)
         IN  IF IsImportNoSpace(line)
             THEN [rest EXCEPT !.imports = <<Expand(line, homeDir)>> \o @]
             ELSE [rest EXCEPT !.codeLines = <<line>> \o @]

RECURSIVE Partition(_, _)
\* lines 25-36: the loop over the lines, imports expanded and pushed to
\* imports, every other line pushed to codeLines
Partition(lines, homeDir) ==
    IF lines = <<>> THEN [imports |-> <<>>, codeLines |-> <<>>]
    ELSE LET rest == Partition(Tail(lines), homeDir)
             line == Head(lines)
         IN  IF IsImport(line)
             THEN [rest EXCEPT !.imports = <<Expand(line, homeDir)>> \o @]
             ELSE [rest EXCEPT !.codeLines = <<line>> \o @]

\* lines 39-40: the text of the template before the imports
HarnessHead == <<NL>>

\* lines 40-44: the text of the template between the imports and the body
HarnessOpen ==
    <<"\n", "\n", "(", "a", "s", "y", "n", "c", " ", "(", ")", " ", "=",
      ">", " ", "{", "\n", " ", " ", "c", "o", "n", "s", "t", " ", "_",
      "_", "r", "e", "s", "u", "l", "t", " ", "=", " ", "a", "w", "a", "i",
      "t", " ", "(", "a", "s", "y", "n", "c", " ", "(", ")", " ", "=", ">",
      " ", "{", "\n", " ", " ", " ", " ">>

\* lines 44-49: the text of the template after the body
HarnessClose ==
    <<"\n", " ", " ", "}", ")", "(", ")", ";", "\n", "\n", " ", " ", "c",
      "o", "n", "s", "o", "l", "e", ".", "l", "o", "g", "(", "'", "_", "_",
      "R", "E", "T", "U", "R", "N", "_", "V", "A", "L", "U", "E", "_", "_",
      ":", "'", " ", "+", " ", "J", "S", "O", "N", ".", "s", "t", "r", "i",
      "n", "g", "i", "f", "y", "(", "_", "_", "r", "e", "s", "u", "l", "t",
      ")", ")", ";", "\n", "}", ")", "(", ")", ";", "\n">>

\* lines 39-49: wrappedCode
Wrap(parts) ==
    HarnessHead \o JoinNL(parts.imports) \o HarnessOpen \o
    JoinNL(parts.codeLines) \o HarnessClose

\* lines 24-49: imports, codeLines and wrappedCode from code and homeDir
Synthesis(code, homeDir) ==
    LET parts == Partition(SplitLines(code), homeDir)
    IN  [imports |-> parts.imports, codeLines |-> parts.codeLines,
         harness |-> Wrap(parts)]


(***************************************************************************)
(* The state: the calls of execute, the temp root of the file system, and  *)
(* the child processes.                                                    *)
(***************************************************************************)
\* number of names mkdtemp can draw under os.tmpdir()
NumPaths == 2

Calls == 1..NumCalls
Paths == 1..NumPaths
NoPath == 0
NoBody == Body(<<>>, "none", Undefined, <<>>)
NoResult == Result(Undefined, <<>>, <<>>)
RmOutcomes == {"ok", "partial", "failed"}

\* a directory: one mkdtemp made under the temp root, or one of the caller
Dir(kind, id) == [kind |-> kind, id |-> id]
TmpLoc(p) == Dir("tmp", p)
\* the working directories a caller passes to execute
WorkDirs == {Dir("work", "server"), Dir("work", "project")}
NoDir == Dir("none", "none")

\* os.homedir()
OsHome == <<"/", "o">>
\* process.env.HOME of the host: unset or empty (both falsy), or a path
EnvHomes == {<<>>, <<"/", "h">>, <<"/", "r">>}
\* line 21 and line 61: process.env.HOME || os.homedir()
ResolveHome(env) == IF env = <<>> THEN OsHome ELSE env

\* lines 54-63: what Bun.spawn is given: the directory of the harness file
\* named in ['bun', 'run', tmpFile], cwd, and the HOME entry of env
Launch(file, cwd, home) == [file |-> file, cwd |-> cwd, home |-> home]
NoLaunch == Launch(NoDir, NoDir, <<>>)

(***************************************************************************)
(* The MCP adapter, src/unnamed/part_000 lines 115-182: the registration   *)
(* of the tool, its handler, and runSkillCode.                             *)
(***************************************************************************)
RECURSIVE JoinCommaNL(_)
\* the separator of JSON.stringify when it indents
JoinCommaNL(ss) ==
    IF ss = <<>> THEN <<>>
    ELSE IF Len(ss) = 1 THEN ss[1]
    ELSE ss[1] \o <<",", NL>> \o JoinCommaNL(Tail(ss))

IsDefined(v) == v # Undefined
MemberIsDefined(m) == m.v # Undefined

\* the gap of JSON.stringify(value, null, 2)
Gap == <<" ", " ">>

RECURSIVE StringifyPretty(_, _)
\* JSON.stringify(v, null, 2) for v other than undefined, at indentation
\* ind: a member whose value is undefined is left out, an element that is
\* undefined is written null, an empty array or object has no line break
StringifyPretty(v, ind) ==
    CASE v.t = "arr" ->
            IF v.a = <<>> THEN <<"[", "]">>
            ELSE <<"[", NL>> \o
                 JoinCommaNL([i \in 1..Len(v.a) |->
                     ind \o Gap \o
                     (IF IsDefined(v.a[i])
                      THEN StringifyPretty(v.a[i], ind \o Gap)
                      ELSE <<"n", "u", "l", "l">>)]) \o
                 <<NL>> \o ind \o <<"]">>
      [] v.t = "obj" ->
            LET ms == SelectSeq(v.o, MemberIsDefined)
            IN  IF ms = <<>> THEN <<"{", "}">>
                ELSE <<"{", NL>> \o
                     JoinCommaNL([i \in 1..Len(ms) |->
                         ind \o Gap \o Quote(ms[i].k) \o <<":", " ">> \o
                         StringifyPretty(ms[i].v, ind \o Gap)]) \o
                     <<NL>> \o ind \o <<"}">>
      [] OTHER -> Stringify(v)

KeyReturnValue == <<"r", "e", "t", "u", "r", "n", "V", "a", "l", "u", "e">>
KeyStdout == <<"s", "t", "d", "o", "u", "t">>
KeyStderr == <<"s", "t", "d", "e", "r", "r">>

\* the object execute returns (impl lines 93-97), as JSON.stringify sees it
ResultObject(r) ==
    JObj(<<Member(KeyReturnValue, r.returnValue),
           Member(KeyStdout, JStr(r.stdout)),
           Member(KeyStderr, JStr(r.stderr))>>)

\* what a rejection carries: an Error with a message, or any other value
ErrorObject(msg) == [err |-> TRUE, message |-> msg, value |-> Undefined]
NonError(v) == [err |-> FALSE, message |-> <<>>, value |-> v]

\* String(v) for a value that is not an Error
StringOf(v) ==
    CASE v.t = "str" -> v.s
      [] v.t = "undefined" -> <<"u", "n", "d", "e", "f", "i", "n", "e", "d">>
      [] OTHER -> Stringify(v)

ErrorExecutingCode ==
    <<"E", "r", "r", "o", "r", " ", "e", "x", "e", "c", "u", "t", "i", "n",
      "g", " ", "c", "o", "d", "e", ":", " ">>

\* the response of the handler: isError is "absent" or "true"
ToolResponse(isError, text) == [isError |-> isError, text |-> text]

\* lines 128-151 with the catch throwing the error again
HandlerRethrows(outcome) ==
    IF outcome.kind = "resolved"
    THEN Resolved(ToolResponse("absent",
                               StringifyPretty(ResultObject(outcome.result), <<>>)))
    ELSE Rejected(outcome.error)

\* lines 128-151: the handler awaits runSkillCode inside a try; it returns
\* the serialized result, or the error-flagged message from the catch
Handler(outcome) ==
    IF outcome.kind = "resolved"
    THEN Resolved(ToolResponse("absent",
                               StringifyPretty(ResultObject(outcome.result), <<>>)))
    ELSE LET error == outcome.error
         IN  Resolved(ToolResponse("true",
                 ErrorExecutingCode \o
                 (IF error.err THEN error.message ELSE StringOf(error.value))))

\* the argument of the handler and of runSkillCode
NoDescription == [given |-> FALSE, text |-> <<>>]
Description(text) == [given |-> TRUE, text |-> text]
Params(code, description) == [code |-> code, description |-> description]
NoParams == Params(<<>>, NoDescription)

\* what runSkillCodeImpl is called with
Args(code, workingDir) == [code |-> code, workingDir |-> workingDir]
NoArgs == Args(<<>>, NoDir)

\* lines 177-182 with the description put in front of the code as a comment
RunSkillCodeLabelled(params, cwd) ==
    IF params.description.given
    THEN Args(<<"/", "/">> \o params.description.text \o <<NL>> \o params.code, cwd)
    ELSE Args(params.code, cwd)

\* lines 177-182: runSkillCode passes params.code and process.cwd()
RunSkillCode(params, cwd) == Args(params.code, cwd)

ToolName == "run-skill-code"
\* the first sentence of the description, line 118
ToolDescription ==
    <<"E", "x", "e", "c", "u", "t", "e", " ", "T", "y", "p", "e", "S", "c",
      "r", "i", "p", "t", " ", "c", "o", "d", "e", " ", "i", "n", "-", "p",
      "r", "o", "c", "e", "s", "s", " ", "w", "i", "t", "h", " ", "a", "c",
      "c", "e", "s", "s", " ", "t", "o", " ", "~", "/", ".", "c", "l", "a",
      "u", "d", "e", "/", "s", "k", "i", "l", "l", "s", " ", "A", "P", "I",
      "s">>
\* the keys of the input schema, lines 119-127
ToolSchema == {"code", "description"}

ToolEntry == [name |-> ToolName, description |-> ToolDescription,
              schema |-> ToolSchema]

\* lines 115-153 with a second tool registered next to the first
RegisterWithAlias(registered) ==
    registered \o <<ToolEntry, [ToolEntry EXCEPT !.name = "run-code"]>>

\* lines 115-153: registerRunSkillCodeTool calls server.tool, once
RegisterRunSkillCodeTool(registered) == Append(registered, ToolEntry)

VARIABLES
    pc,          \* pc[c]: where call c of execute stands
    body,        \* body[c]: the code submitted to call c
    tmpDir,      \* tmpDir[c]: the directory mkdtemp returned (line 16)
    dirs,        \* the directories that exist under the temp root
    files,       \* the directories that hold a code.ts
    child,       \* child[c]: "none", "running", "closed" (it has written its
                 \* output and closed both streams) or "exited"
    exitCode,    \* exitCode[c]: the exit code of the child of call c
    stdout,      \* stdout[c]: the text read from proc.stdout (line 66)
    stderr,      \* stderr[c]: the text read from proc.stderr (line 67)
    completion,  \* completion[c]: how the try block of lines 19-97 ended
    settled,     \* settled[c]: how the promise of execute settled
    events,      \* events[c]: what call c has done so far, in order
    workDir,     \* workDir[c]: the workingDir passed to call c
    homeDir,     \* homeDir[c]: the home directory read at line 21
    launch,      \* launch[c]: what Bun.spawn was given (lines 54-63)
    envHome,     \* process.env.HOME of the host process
    dpc,         \* the decoder applied alone: "off", "input" or "decoded"
    dRaw,        \* the decoder applied alone: its input
    dRes,        \* the decoder applied alone: its output
    spc,         \* the synthesizer applied alone: "off", "input" or "split"
    sCode,       \* the synthesizer applied alone: the submitted code
    sHome,       \* the synthesizer applied alone: the home directory
    sOut,        \* the synthesizer applied alone: its output
    tools,       \* the tools registered with the MCP server, in order
    regCalls,    \* how many times registerRunSkillCodeTool was called
    tpc,         \* the tool handler: "off", "idle", "called", "settled" or
                 \* "responded"
    tParams,     \* the tool handler: { code, description } it was called with
    tArgs,       \* the tool handler: what runSkillCode passed to the executor
    tOutcome,    \* the tool handler: how runSkillCode settled
    tResp,       \* the tool handler: how the handler itself settled
    script,      \* the pipes: what the child writes, in order
    todo,        \* the pipes: what the child has not written yet
    kid,         \* the pipes: the child is "off", "running" or "exited"
    pipe,        \* the pipes: pipe[s] is the text held by the pipe of stream s
    got,         \* the pipes: got[s] is the text read from stream s so far
    eof,         \* the pipes: eof[s] tells that the read of stream s has ended
    ppc          \* the pipes: the adapter is "off", at "drain" (line 65), at
                 \* "wait" (line 70) or "done"

vars == <<pc, body, tmpDir, dirs, files, child, exitCode, stdout, stderr,
          completion, settled, events, workDir, homeDir, launch, envHome,
          dpc, dRaw, dRes, spc, sCode, sHome, sOut,
          tools, regCalls, tpc, tParams, tArgs, tOutcome, tResp,
          script, todo, kid, pipe, got, eof, ppc>>

launchVars == <<workDir, homeDir, launch, envHome>>
callVars == <<pc, body, tmpDir, dirs, files, child, exitCode, stdout, stderr,
              completion, settled, events, launchVars>>
decoderVars == <<dpc, dRaw, dRes>>
splitVars == <<spc, sCode, sHome, sOut>>
toolVars == <<tools, regCalls, tpc, tParams, tArgs, tOutcome, tResp>>
pipeVars == <<script, todo, kid, pipe, got, eof, ppc>>
pureVars == <<decoderVars, splitVars, toolVars, pipeVars>>

InitCalls ==
    /\ pc = [c \in Calls |-> "idle"]
    /\ body = [c \in Calls |-> NoBody]
    /\ tmpDir = [c \in Calls |-> NoPath]
    /\ dirs = {}
    /\ files = {}
    /\ child = [c \in Calls |-> "none"]
    /\ exitCode = [c \in Calls |-> 0]
    /\ stdout = [c \in Calls |-> <<>>]
    /\ stderr = [c \in Calls |-> <<>>]
    /\ completion = [c \in Calls |-> Pending]
    /\ settled = [c \in Calls |-> Pending]
    /\ events = [c \in Calls |-> <<>>]
    /\ workDir = [c \in Calls |-> NoDir]
    /\ homeDir = [c \in Calls |-> <<>>]
    /\ launch = [c \in Calls |-> NoLaunch]

InitDecoderOff ==
    /\ dpc = "off"
    /\ dRaw = <<>>
    /\ dRes = [returnValue |-> Undefined, stdout |-> <<>>]

InitSplitOff ==
    /\ spc = "off"
    /\ sCode = <<>>
    /\ sHome = <<>>
    /\ sOut = [imports |-> <<>>, codeLines |-> <<>>, harness |-> <<>>]

\* the two streams of a child
Streams == {"out", "err"}

InitPipeOff ==
    /\ script = <<>>
    /\ todo = <<>>
    /\ kid = "off"
    /\ pipe = [s \in Streams |-> <<>>]
    /\ got = [s \in Streams |-> <<>>]
    /\ eof = [s \in Streams |-> FALSE]
    /\ ppc = "off"

InitToolOff ==
    /\ tools = <<>>
    /\ regCalls = 0
    /\ tpc = "off"
    /\ tParams = NoParams
    /\ tArgs = NoArgs
    /\ tOutcome = Pending
    /\ tResp = Pending

\* the host has a HOME, which nothing changes
Init ==
    /\ InitCalls
    /\ envHome = <<"/", "h">>
    /\ InitDecoderOff
    /\ InitSplitOff
    /\ InitToolOff
    /\ InitPipeOff

\* the host has any HOME, or none
InitEnv ==
    /\ InitCalls
    /\ envHome \in EnvHomes
    /\ InitDecoderOff
    /\ InitSplitOff
    /\ InitToolOff
    /\ InitPipeOff

Did(c, e) == \E i \in 1..Len(events[c]) : events[c][i] = e
Log(c, e) == events' = [events EXCEPT ![c] = Append(@, e)]

\* line 10 with lines 21-49 moved before line 16: the harness is synthesized
\* at entry
ExecuteSynthesizesFirst(c, B) ==
    /\ pc[c] = "idle"
    /\ \E b \in B : body' = [body EXCEPT ![c] = b]
    /\ \E w \in WorkDirs : workDir' = [workDir EXCEPT ![c] = w]
    /\ homeDir' = [homeDir EXCEPT ![c] = ResolveHome(envHome)]
    /\ pc' = [pc EXCEPT ![c] = "mkdtemp"]
    /\ events' = [events EXCEPT ![c] = @ \o <<"execute", "synthesize">>]
    /\ UNCHANGED <<tmpDir, dirs, files, child, exitCode, stdout, stderr,
                   completion, settled, launch, envHome, pureVars>>

\* line 10: execute(code, workingDir) is called with a code of B and a
\* working directory of W; lines 11-13 await the imports
ExecuteIn(c, B, W) ==
    /\ pc[c] = "idle"
    /\ \E b \in B : body' = [body EXCEPT ![c] = b]
    /\ \E w \in W : workDir' = [workDir EXCEPT ![c] = w]
    /\ pc' = [pc EXCEPT ![c] = "mkdtemp"]
    /\ Log(c, "execute")
    /\ UNCHANGED <<tmpDir, dirs, files, child, exitCode, stdout, stderr,
                   completion, settled, homeDir, launch, envHome, pureVars>>

\* line 10: execute is called with a code of B and any working directory
Execute(c, B) == ExecuteIn(c, B, WorkDirs)

\* line 16 with a directory name that does not depend on what exists
MkdTempAnyName(c) ==
    /\ pc[c] = "mkdtemp"
    /\ \E p \in Paths :
          /\ dirs' = dirs \cup {p}
          /\ tmpDir' = [tmpDir EXCEPT ![c] = p]
    /\ pc' = [pc EXCEPT ![c] = "synth"]
    /\ Log(c, "mkdtemp")
    /\ UNCHANGED <<body, files, child, exitCode, stdout, stderr,
                   completion, settled, launchVars, pureVars>>

\* line 16: mkdtemp creates a directory under a name that does not exist
MkdTemp(c) ==
    /\ pc[c] = "mkdtemp"
    /\ \E p \in Paths \ dirs :
          /\ dirs' = dirs \cup {p}
          /\ tmpDir' = [tmpDir EXCEPT ![c] = p]
    /\ pc' = [pc EXCEPT ![c] = "synth"]
    /\ Log(c, "mkdtemp")
    /\ UNCHANGED <<body, files, child, exitCode, stdout, stderr,
                   completion, settled, launchVars, pureVars>>

\* line 16 throws: it stands before the try of line 19, so the call rejects
\* at once
MkdTempFail(c) ==
    /\ pc[c] = "mkdtemp"
    /\ pc' = [pc EXCEPT ![c] = "done"]
    /\ settled' = [settled EXCEPT ![c] = Rejected("EMKDTEMP")]
    /\ Log(c, "mkdtemp-failed")
    /\ UNCHANGED <<body, tmpDir, dirs, files, child, exitCode, stdout, stderr,
                   completion, launchVars, pureVars>>

\* lines 21-49: inside the try and after mkdtemp has returned, the home
\* directory is read and the harness text is synthesized from the code
Synthesize(c) ==
    /\ pc[c] = "synth"
    /\ homeDir' = [homeDir EXCEPT ![c] = ResolveHome(envHome)]
    /\ pc' = [pc EXCEPT ![c] = "write"]
    /\ Log(c, "synthesize")
    /\ UNCHANGED <<body, tmpDir, dirs, files, child, exitCode, stdout, stderr,
                   completion, settled, workDir, launch, envHome, pureVars>>

\* line 51 run in a loop: the harness can be written again
WriteFileAgain(c) ==
    /\ pc[c] = "write"
    /\ files' = files \cup {tmpDir[c]}
    /\ \E next \in {"write", "spawn"} : pc' = [pc EXCEPT ![c] = next]
    /\ Log(c, "write")
    /\ UNCHANGED <<body, tmpDir, dirs, child, exitCode, stdout, stderr,
                   completion, settled, launchVars, pureVars>>

\* line 51: the harness is written to tmpDir/code.ts
WriteFile(c) ==
    /\ pc[c] = "write"
    /\ files' = files \cup {tmpDir[c]}
    /\ pc' = [pc EXCEPT ![c] = "spawn"]
    /\ Log(c, "write")
    /\ UNCHANGED <<body, tmpDir, dirs, child, exitCode, stdout, stderr,
                   completion, settled, launchVars, pureVars>>

\* line 51 throws
WriteFileFail(c) ==
    /\ pc[c] = "write"
    /\ completion' = [completion EXCEPT ![c] = Rejected("EWRITE")]
    /\ pc' = [pc EXCEPT ![c] = "finally"]
    /\ Log(c, "write-failed")
    /\ UNCHANGED <<body, tmpDir, dirs, files, child, exitCode, stdout, stderr,
                   settled, launchVars, pureVars>>

\* lines 54-63 with the child started inside the temp directory
SpawnArgsInTmpDir(c) ==
    Launch(TmpLoc(tmpDir[c]), TmpLoc(tmpDir[c]), ResolveHome(envHome))

\* lines 54-63: ['bun', 'run', tmpFile], cwd: workingDir, and HOME read from
\* the environment again
SpawnArgs(c) ==
    Launch(TmpLoc(tmpDir[c]), workDir[c], ResolveHome(envHome))

\* lines 54-63: Bun.spawn starts the child
Spawn(c) ==
    /\ pc[c] = "spawn"
    /\ child' = [child EXCEPT ![c] = "running"]
    /\ launch' = [launch EXCEPT ![c] = SpawnArgs(c)]
    /\ pc' = [pc EXCEPT ![c] = "drain"]
    /\ Log(c, "spawn")
    /\ UNCHANGED <<body, tmpDir, dirs, files, exitCode, stdout, stderr,
                   completion, settled, workDir, homeDir, envHome, pureVars>>

\* lines 54-63 with the launch failure leaving the function at once
SpawnFailNoCleanup(c) ==
    /\ pc[c] = "spawn"
    /\ settled' = [settled EXCEPT ![c] = Rejected("ESPAWN")]
    /\ pc' = [pc EXCEPT ![c] = "done"]
    /\ Log(c, "spawn-failed")
    /\ UNCHANGED <<body, tmpDir, dirs, files, child, exitCode, stdout, stderr,
                   completion, launchVars, pureVars>>

\* lines 54-63 with the launch failure turned into an empty result
SpawnFailAsResult(c) ==
    /\ pc[c] = "spawn"
    /\ completion' = [completion EXCEPT ![c] = Resolved(NoResult)]
    /\ pc' = [pc EXCEPT ![c] = "finally"]
    /\ Log(c, "spawn-failed")
    /\ UNCHANGED <<body, tmpDir, dirs, files, child, exitCode, stdout, stderr,
                   settled, launchVars, pureVars>>

\* lines 54-63 throw: no child exists, the error leaves the try block
SpawnFail(c) ==
    /\ pc[c] = "spawn"
    /\ completion' = [completion EXCEPT ![c] = Rejected("ESPAWN")]
    /\ pc' = [pc EXCEPT ![c] = "finally"]
    /\ Log(c, "spawn-failed")
    /\ UNCHANGED <<body, tmpDir, dirs, files, child, exitCode, stdout, stderr,
                   settled, launchVars, pureVars>>

\* the child has run the harness, written its output and closed its streams
ChildClose(c) ==
    /\ child[c] = "running"
    /\ child' = [child EXCEPT ![c] = "closed"]
    /\ UNCHANGED <<pc, body, tmpDir, dirs, files, exitCode, stdout, stderr,
                   completion, settled, events, launchVars, pureVars>>

\* the child exits
ChildExit(c) ==
    /\ child[c] = "closed"
    /\ child' = [child EXCEPT ![c] = "exited"]
    /\ \E code \in ChildExitCodes(body[c]) :
          exitCode' = [exitCode EXCEPT ![c] = code]
    /\ UNCHANGED <<pc, body, tmpDir, dirs, files, stdout, stderr,
                   completion, settled, events, launchVars, pureVars>>

\* lines 65-68: both streams are read to their end
Drain(c) ==
    /\ pc[c] = "drain"
    /\ child[c] \in {"closed", "exited"}
    /\ stdout' = [stdout EXCEPT ![c] = ChildStdout(body[c])]
    /\ stderr' = [stderr EXCEPT ![c] = ChildStderr(body[c])]
    /\ pc' = [pc EXCEPT ![c] = "wait"]
    /\ Log(c, "drain")
    /\ UNCHANGED <<body, tmpDir, dirs, files, child, exitCode,
                   completion, settled, launchVars, pureVars>>

\* lines 65-68 throw: reading one of the streams fails
DrainFail(c) ==
    /\ pc[c] = "drain"
    /\ completion' = [completion EXCEPT ![c] = Rejected("EREAD")]
    /\ pc' = [pc EXCEPT ![c] = "finally"]
    /\ Log(c, "drain-failed")
    /\ UNCHANGED <<body, tmpDir, dirs, files, child, exitCode, stdout, stderr,
                   settled, launchVars, pureVars>>

\* lines 70-97 without the await of line 70: the output is decoded as soon
\* as it is read
WaitExitNoAwait(c) ==
    /\ pc[c] = "wait"
    /\ completion' = [completion EXCEPT ![c] =
                         Return(stdout[c], stderr[c], exitCode[c])]
    /\ pc' = [pc EXCEPT ![c] = "finally"]
    /\ Log(c, "return")
    /\ UNCHANGED <<body, tmpDir, dirs, files, child, exitCode, stdout, stderr,
                   settled, launchVars, pureVars>>

\* lines 70-97: the child has exited; the output is decoded and returned
WaitExit(c) ==
    /\ pc[c] = "wait"
    /\ child[c] = "exited"
    /\ completion' = [completion EXCEPT ![c] =
                         Return(stdout[c], stderr[c], exitCode[c])]
    /\ pc' = [pc EXCEPT ![c] = "finally"]
    /\ Log(c, "return")
    /\ UNCHANGED <<body, tmpDir, dirs, files, child, exitCode, stdout, stderr,
                   settled, launchVars, pureVars>>

\* line 101 with the removal doing nothing
RmTreeNoop(S, p) == S

\* line 101: fs.rm(tmpDir, { recursive: true, force: true }) when it succeeds
RmTree(S, p) == S \ {p}

\* lines 100-104 without the catch: a removal error replaces the outcome
AfterCleanupThrows(outcome, rm) ==
    IF rm = "ok" THEN outcome ELSE Rejected("ERM")

\* lines 100-104: the removal error is caught and dropped, so the function
\* completes as its try block did
AfterCleanup(outcome, rm) == outcome

\* lines 98-105: the finally block removes the directory and the call settles.
\* The removal succeeds, or raises having removed nothing, or raises having
\* removed the file and not the directory.
Finally(c) ==
    /\ pc[c] = "finally"
    /\ \E rm \in RmOutcomes :
          /\ dirs' = IF rm = "ok" THEN RmTree(dirs, tmpDir[c]) ELSE dirs
          /\ files' = IF rm = "failed" THEN files ELSE RmTree(files, tmpDir[c])
          /\ settled' = [settled EXCEPT ![c] = AfterCleanup(completion[c], rm)]
          /\ Log(c, IF rm = "ok" THEN "rm-ok" ELSE "rm-failed")
    /\ pc' = [pc EXCEPT ![c] = "done"]
    /\ UNCHANGED <<body, tmpDir, child, exitCode, stdout, stderr,
                   completion, launchVars, pureVars>>

\* the host process assigns process.env.HOME, or deletes it
SetHome ==
    /\ \E h \in EnvHomes \ {envHome} : envHome' = h
    /\ UNCHANGED <<pc, body, tmpDir, dirs, files, child, exitCode, stdout,
                   stderr, completion, settled, events, workDir, homeDir,
                   launch, pureVars>>

\* one step of call c after its entry
Proceed(c) ==
    \/ MkdTemp(c)
    \/ MkdTempFail(c)
    \/ Synthesize(c)
    \/ WriteFile(c)
    \/ WriteFileFail(c)
    \/ Spawn(c)
    \/ SpawnFail(c)
    \/ ChildClose(c)
    \/ ChildExit(c)
    \/ Drain(c)
    \/ DrainFail(c)
    \/ WaitExit(c)
    \/ Finally(c)

\* one step of call c, whose body is drawn from B
Step(c, B) == Execute(c, B) \/ Proceed(c)

\* one call of execute, on any body
Next == Step(1, Bodies)

Spec == Init /\ [][Next]_vars

(***************************************************************************)
(* Concurrent calls: runSkillCodeImpl is async and the executor is shared, *)
(* so the steps of several calls interleave at every await.                *)
(***************************************************************************)
SmallBodies ==
    { BodyLate(<<TextHi>>, JNum(42), <<>>),
      Body(<<>>, "throw", Undefined, TextBoom) }

\* runSkillCode passes process.cwd() of the server to every call
ServerDir == {Dir("work", "server")}

\* one step of call c when the file system lets it create its workspace and
\* write and read its files (the launch and the removal may fail)
StepConc(c) ==
    \/ ExecuteIn(c, SmallBodies, ServerDir)
    \/ MkdTemp(c)
    \/ Synthesize(c)
    \/ WriteFile(c)
    \/ Spawn(c)
    \/ SpawnFail(c)
    \/ ChildClose(c)
    \/ ChildExit(c)
    \/ Drain(c)
    \/ WaitExit(c)
    \/ Finally(c)

NextConc == \E c \in Calls : StepConc(c)

SpecConc == Init /\ [][NextConc]_vars

(***************************************************************************)
(* One call in a host process whose environment changes while it runs.     *)
(***************************************************************************)
NextEnv == Step(1, SmallBodies) \/ SetHome

SpecEnv == InitEnv /\ [][NextEnv]_vars

(***************************************************************************)
(* The decoder applied alone, to any text a child could write to stdout:   *)
(* a sequence of chunks in which the sentinel token may stand anywhere,    *)
(* more than once, with or without a line break after its payload.         *)
(***************************************************************************)
Chunks ==
    { <<"a">>, <<NL>>, returnMarker, returnMarker \o <<"4", "2">>, <<"7">>,
      <<"_", "_", "R">>, <<"\"">> }

RawTexts == {Concat(s) : s \in SeqsUpTo(Chunks, MaxChunks)}

InitDecode ==
    /\ InitCalls
    /\ envHome = <<>>
    /\ InitSplitOff
    /\ InitToolOff
    /\ InitPipeOff
    /\ dpc = "input"
    /\ dRaw \in RawTexts
    /\ dRes = [returnValue |-> Undefined, stdout |-> <<>>]

DecodeStep ==
    /\ dpc = "input"
    /\ dRes' = Decode(dRaw)
    /\ dpc' = "decoded"
    /\ UNCHANGED <<dRaw, callVars, splitVars, toolVars, pipeVars>>

NextDecode == DecodeStep

SpecDecode == InitDecode /\ [][NextDecode]_vars

(***************************************************************************)
(* The synthesizer applied alone, to any code made of a few lines: import  *)
(* lines with a single-quoted alias, a double-quoted alias, two aliases,   *)
(* no alias; lines that only look like imports; a body line holding an     *)
(* alias and a placeholder; the empty line.                                *)
(***************************************************************************)
MaxLines == 3

\* import a from '~/x'
LineSingle ==
    <<"i", "m", "p", "o", "r", "t", " ", "a", " ", "f", "r", "o", "m", " ",
      "'", "~", "/", "x", "'">>
\* import a from "~/x"
LineDouble ==
    <<"i", "m", "p", "o", "r", "t", " ", "a", " ", "f", "r", "o", "m", " ",
      "\"", "~", "/", "x", "\"">>
\* an indented import of a path without the alias
LinePlain ==
    <<" ", " ", "i", "m", "p", "o", "r", "t", " ", "b", " ", "f", "r", "o",
      "m", " ", "'", "y", "'">>
\* two aliases in one import line, tabs for whitespace
LineTwo ==
    <<"i", "m", "p", "o", "r", "t", "\t", "'", "~", "/", "p", "'", ";",
      "\t", "i", "m", "p", "o", "r", "t", " ", "\"", "~", "/", "q", "\"">>
\* a dynamic import: no whitespace follows the keyword
LineDynamic ==
    <<"i", "m", "p", "o", "r", "t", "(", "'", "~", "/", "z", "'", ")">>
\* an identifier that starts with the keyword
LineWord ==
    <<"i", "m", "p", "o", "r", "t", "s", " ", "=", " ", "1">>
\* a body line with leading and trailing whitespace that holds the alias
\* and a ${} placeholder
LineTemplate ==
    <<" ", " ", "t", " ", "=", " ", "'", "~", "/", "$", "{", "k", "}", "'",
      ";", " ">>

SourceLines ==
    {LineSingle, LineDouble, LinePlain, LineTwo, LineDynamic, LineWord,
     LineTemplate, <<>>}

Codes == {JoinNL(ls) : ls \in SeqsUpTo(SourceLines, MaxLines)}
Homes == {ResolveHome(e) : e \in EnvHomes}

InitSplit ==
    /\ InitCalls
    /\ envHome = <<>>
    /\ InitDecoderOff
    /\ InitToolOff
    /\ InitPipeOff
    /\ spc = "input"
    /\ sCode \in Codes
    /\ sHome \in Homes
    /\ sOut = [imports |-> <<>>, codeLines |-> <<>>, harness |-> <<>>]

SplitStep ==
    /\ spc = "input"
    /\ sOut' = Synthesis(sCode, sHome)
    /\ spc' = "split"
    /\ UNCHANGED <<sCode, sHome, callVars, decoderVars, toolVars,
                   pipeVars>>

NextSplit == SplitStep

SpecSplit == InitSplit /\ [][NextSplit]_vars

(***************************************************************************)
(* The adapter applied alone: the tool is registered, then called with any *)
(* code and description; runSkillCode settles in any of the ways execute   *)
(* can settle, or with a value that is not an Error.                       *)
(***************************************************************************)
MaxRegistrations == 2

Descriptions ==
    {NoDescription, Description(<<>>), Description(<<"s", "u", "m">>)}

ToolCodes == {<<>>, LineSingle, JoinNL(<<LineDouble, LineTemplate>>)}

ToolBodies ==
    { BodyLate(<<TextHi>>, JNum(42), <<>>),
      BodyLate(<<>>, JStr(<<"a", "\n", "\"", "\\">>), <<TextHi>>),
      BodyLate(<<>>, JArr(<<JNum(1), JObj(<<>>), JArr(<<>>)>>), <<>>),
      BodyLate(<<>>, JObj(<<Member(<<"i", "d">>, JNum(10)),
                            Member(<<"t">>, JArr(<<JBool(TRUE), JNull>>))>>),
               <<>>),
      BodyLate(<<TextHi>>, Undefined, <<>>),
      Body(<<>>, "throw", Undefined, TextBoom),
      Body(<<>>, "parse", Undefined, <<>>) }

ToolOutcomes ==
    {Return(ChildStdout(b), ChildStderr(b), 0) : b \in ToolBodies}
    \cup {Rejected(ErrorObject(<<"E", "N", "O", "S", "P", "C">>)),
          Rejected(ErrorObject(<<>>)),
          Rejected(NonError(JStr(TextBoom))),
          Rejected(NonError(JNum(7))),
          Rejected(NonError(Undefined))}

InitTool ==
    /\ InitCalls
    /\ envHome = <<>>
    /\ InitDecoderOff
    /\ InitSplitOff
    /\ InitPipeOff
    /\ tools = <<>>
    /\ regCalls = 0
    /\ tpc = "idle"
    /\ tParams = NoParams
    /\ tArgs = NoArgs
    /\ tOutcome = Pending
    /\ tResp = Pending

\* registerRunSkillCodeTool(server) is called
Register ==
    /\ tpc = "idle"
    /\ regCalls < MaxRegistrations
    /\ regCalls' = regCalls + 1
    /\ tools' = RegisterRunSkillCodeTool(tools)
    /\ UNCHANGED <<tpc, tParams, tArgs, tOutcome, tResp, callVars,
                   decoderVars, splitVars, pipeVars>>

\* the server calls the handler of a registered tool; the handler calls
\* runSkillCode, which calls runSkillCodeImpl
Invoke ==
    /\ tpc = "idle"
    /\ tools # <<>>
    /\ \E code \in ToolCodes, d \in Descriptions, cwd \in WorkDirs :
          /\ tParams' = Params(code, d)
          /\ tArgs' = RunSkillCode(Params(code, d), cwd)
    /\ tpc' = "called"
    /\ UNCHANGED <<tools, regCalls, tOutcome, tResp, callVars, decoderVars,
                   splitVars, pipeVars>>

\* runSkillCode settles
Settle ==
    /\ tpc = "called"
    /\ \E o \in ToolOutcomes : tOutcome' = o
    /\ tpc' = "settled"
    /\ UNCHANGED <<tools, regCalls, tParams, tArgs, tResp, callVars,
                   decoderVars, splitVars, pipeVars>>

\* the handler settles
Respond ==
    /\ tpc = "settled"
    /\ tResp' = Handler(tOutcome)
    /\ tpc' = "responded"
    /\ UNCHANGED <<tools, regCalls, tParams, tArgs, tOutcome, callVars,
                   decoderVars, splitVars, pipeVars>>

NextTool == Register \/ Invoke \/ Settle \/ Respond

SpecTool == InitTool /\ [][NextTool]_vars

(***************************************************************************)
(* The drain of lines 65-70 applied alone.  The child writes its output    *)
(* character by character to two pipes that hold PipeCap characters each;  *)
(* a write to a full pipe blocks the child.  The streams end when the      *)
(* child exits.  The two reads of line 65 take what the pipes hold until   *)
(* the streams end; line 70 then waits for the exit.                       *)
(***************************************************************************)
PipeCap == 1
MaxWrites == 3

\* the child writes character ch to stream s
Write(s, ch) == [s |-> s, ch |-> ch]

Scripts == SeqsUpTo({Write("out", "a"), Write("err", "b")}, MaxWrites)

InitPipe ==
    /\ InitCalls
    /\ envHome = <<>>
    /\ InitDecoderOff
    /\ InitSplitOff
    /\ InitToolOff
    /\ script \in Scripts
    /\ todo = script
    /\ kid = "running"
    /\ pipe = [s \in Streams |-> <<>>]
    /\ got = [s \in Streams |-> <<>>]
    /\ eof = [s \in Streams |-> FALSE]
    /\ ppc = "drain"

\* lines 65-68 with the two reads one after the other: stderr is read only
\* when the read of stdout has ended
ReadStartedInTurn(s) == ppc = "drain" /\ (s = "err" => eof["out"])

\* lines 65-68: both reads are started before either is awaited
ReadStarted(s) == ppc = "drain"

CanKidWrite ==
    /\ kid = "running"
    /\ todo # <<>>
    /\ Len(pipe[Head(todo).s]) < PipeCap

CanKidExit == kid = "running" /\ todo = <<>>

CanRead(s) ==
    /\ ReadStarted(s)
    /\ ~eof[s]
    /\ (pipe[s] # <<>> \/ kid = "exited")

CanAllDrained == ppc = "drain" /\ \A s \in Streams : eof[s]

CanExited == ppc = "wait" /\ kid = "exited"

\* the child writes its next character
KidWrite ==
    /\ CanKidWrite
    /\ pipe' = [pipe EXCEPT ![Head(todo).s] = Append(@, Head(todo).ch)]
    /\ todo' = Tail(todo)
    /\ UNCHANGED <<script, kid, got, eof, ppc, callVars, decoderVars,
                   splitVars, toolVars>>

\* the child has written everything and exits, which ends both streams
KidExit ==
    /\ CanKidExit
    /\ kid' = "exited"
    /\ UNCHANGED <<script, todo, pipe, got, eof, ppc, callVars, decoderVars,
                   splitVars, toolVars>>

\* lines 66-67: new Response(stream).text() takes what the pipe holds, or
\* ends when the pipe is empty and the stream has ended
Read(s) ==
    /\ CanRead(s)
    /\ IF pipe[s] # <<>>
       THEN /\ got' = [got EXCEPT ![s] = @ \o pipe[s]]
            /\ pipe' = [pipe EXCEPT ![s] = <<>>]
            /\ UNCHANGED eof
       ELSE /\ eof' = [eof EXCEPT ![s] = TRUE]
            /\ UNCHANGED <<got, pipe>>
    /\ UNCHANGED <<script, todo, kid, ppc, callVars, decoderVars, splitVars,
                   toolVars>>

\* line 65: Promise.all resolves when both reads have ended
AllDrained ==
    /\ CanAllDrained
    /\ ppc' = "wait"
    /\ UNCHANGED <<script, todo, kid, pipe, got, eof, callVars, decoderVars,
                   splitVars, toolVars>>

\* line 70: await proc.exited
Exited ==
    /\ CanExited
    /\ ppc' = "done"
    /\ UNCHANGED <<script, todo, kid, pipe, got, eof, callVars, decoderVars,
                   splitVars, toolVars>>

NextPipe ==
    \/ KidWrite
    \/ KidExit
    \/ \E s \in Streams : Read(s)
    \/ AllDrained
    \/ Exited

SpecPipe == InitPipe /\ [][NextPipe]_vars

(***************************************************************************)
(* Reference definitions the properties are stated with.  They describe    *)
(* the sentinel line by its position in the text and share nothing with    *)
(* the decoder's slicing.                                                  *)
(***************************************************************************)
HasToken(raw) == \E i \in 0..Len(raw) : OccursAt(raw, returnMarker, i)

\* the 0-based offset of the first sentinel token of raw
FirstToken(raw) ==
    CHOOSE i \in 0..Len(raw) :
        /\ OccursAt(raw, returnMarker, i)
        /\ \A j \in 0..(i - 1) : ~OccursAt(raw, returnMarker, j)

\* the 1-based positions of the line breaks that follow the first token
BreaksAfterToken(raw) ==
    {k \in (FirstToken(raw) + Len(returnMarker) + 1)..Len(raw) : raw[k] = NL}

\* the 1-based position of the last character of the sentinel line: the line
\* break that ends the payload, or the end of the text
SentinelLineEnd(raw) ==
    IF BreaksAfterToken(raw) = {} THEN Len(raw)
    ELSE CHOOSE k \in BreaksAfterToken(raw) : \A m \in BreaksAfterToken(raw) : k <= m

\* the payload: what stands between the first token and the end of its line
RefPayload(raw) ==
    LET from == FirstToken(raw) + Len(returnMarker)
        to == IF BreaksAfterToken(raw) = {} THEN Len(raw)
              ELSE SentinelLineEnd(raw) - 1
    IN  [k \in 1..(to - from) |-> raw[from + k]]

\* raw without its sentinel line: the text before the first token followed by
\* the text after the end of that line; raw itself when it holds no token
RefClean(raw) ==
    IF ~HasToken(raw) THEN raw
    ELSE LET before == [k \in 1..FirstToken(raw) |-> raw[k]]
             e == SentinelLineEnd(raw)
             after == [k \in 1..(Len(raw) - e) |-> raw[e + k]]
         IN  before \o after

\* no text the body logs holds the sentinel token
NoDecoy(b) == \A i \in 1..Len(b.logs) : ~HasToken(b.logs[i])

RmAttempted(c) == Did(c, "rm-ok") \/ Did(c, "rm-failed")

(***************************************************************************)
(* Properties.                                                             *)
(***************************************************************************)

\* C1: whenever a call has settled and its temp directory had been created,
\* the recursive forced removal of that directory has been attempted; this
\* holds on every exit path (return, decode failure, write failure, launch
\* failure, stream-read failure).
C1_RemovalAttemptedBeforeSettle ==
    \A c \in Calls :
        (settled[c] # Pending /\ Did(c, "mkdtemp")) => RmAttempted(c)

\* C1 witness: a call whose stream read failed has settled after attempting
\* the removal.
C1_Witness ==
    \E c \in Calls :
        /\ Did(c, "drain-failed")
        /\ settled[c] = Rejected("EREAD")
        /\ RmAttempted(c)

\* C2 as stated: after a call completes, the directory created for it no
\* longer exists, however the removal step behaved.
C2_Original ==
    \A c \in Calls :
        (pc[c] = "done" /\ tmpDir[c] # NoPath) => tmpDir[c] \notin dirs

\* C2 amended: after a call completes whose removal step did not raise, the
\* directory created for it and the harness file in it no longer exist.
C2_RemovedWhenRmSucceeds ==
    \A c \in Calls :
        (pc[c] = "done" /\ Did(c, "rm-ok")) =>
            /\ tmpDir[c] \notin dirs
            /\ tmpDir[c] \notin files

\* C2 witness: a call that wrote its harness, ran its child and returned has
\* completed with a successful removal.
C2_Witness ==
    \E c \in Calls :
        /\ pc[c] = "done"
        /\ Did(c, "write") /\ Did(c, "return") /\ Did(c, "rm-ok")
        /\ tmpDir[c] \notin dirs

\* C3: a failure of the removal step never changes the outcome: the call
\* settles exactly as its try block completed, with that result or that error.
C3_CleanupNeverChangesOutcome ==
    \A c \in Calls :
        (pc[c] = "done" /\ RmAttempted(c)) =>
            /\ settled[c] = completion[c]
            /\ settled[c] # Pending

\* C3 witness: the removal raised after the try block had produced a result.
C3_Witness ==
    \E c \in Calls :
        /\ pc[c] = "done"
        /\ Did(c, "rm-failed")
        /\ completion[c].kind = "resolved"
        /\ settled[c] = completion[c]

\* C4: when mkdtemp fails the call rejects with that error, no harness file is
\* written and no child is launched; when the launch fails the call rejects
\* with that error; in neither case does it resolve with a result.
C4_InfrastructureFaultsReject ==
    \A c \in Calls :
        /\ Did(c, "mkdtemp-failed") =>
              /\ pc[c] = "done"
              /\ settled[c] = Rejected("EMKDTEMP")
              /\ ~Did(c, "write") /\ ~Did(c, "spawn")
              /\ tmpDir[c] = NoPath
              /\ child[c] = "none"
        /\ Did(c, "spawn-failed") =>
              /\ completion[c] = Rejected("ESPAWN")
              /\ child[c] = "none"
              /\ pc[c] = "done" => settled[c] = Rejected("ESPAWN")

\* C4 witness: a call whose child could not be launched has settled.
C4_Witness ==
    \E c \in Calls :
        /\ pc[c] = "done"
        /\ Did(c, "spawn-failed")
        /\ settled[c] = Rejected("ESPAWN")

C6_ExitCodeIgnored ==
    \A c \in Calls :
        Did(c, "return") =>
            /\ completion[c].kind = "resolved"
            /\ completion[c].result.stderr = stderr[c]
            /\ completion[c].result.stdout = RefClean(stdout[c])
            /\ completion[c].result.returnValue =
                  (IF HasToken(stdout[c])
                   THEN ParseOrUndefined(RefPayload(stdout[c]))
                   ELSE Undefined)
            /\ body[c].k = "parse" =>
                  /\ completion[c].result.stderr # <<>>
                  /\ completion[c].result.returnValue = Undefined

\* C6 witness: a body with a parse error made the child exit with a non-zero
\* code, and the call resolved.
C6_Witness ==
    \E c \in Calls :
        /\ body[c].k = "parse"
        /\ exitCode[c] # 0
        /\ pc[c] = "done"
        /\ settled[c].kind = "resolved"

\* C7 as stated: for any body that ends with `return V`, V a plain value, and
\* for every text it logged before, the decoded returnValue equals V.
C7_Original ==
    \A c \in Calls :
        (body[c].k = "return" /\ body[c].v # Undefined /\ Did(c, "return")) =>
            /\ completion[c].kind = "resolved"
            /\ completion[c].result.returnValue = body[c].v

\* C7 amended: for any body that ends with `return V`, V a plain value, and
\* that logged no text holding the sentinel token, the harness's encoding of V
\* followed by the decoder's decoding yields returnValue equal to V.
C7_ReturnValueRoundTrip ==
    \A c \in Calls :
        (/\ body[c].k = "return" /\ body[c].v # Undefined
         /\ NoDecoy(body[c]) /\ Did(c, "return")) =>
            /\ completion[c].kind = "resolved"
            /\ completion[c].result.returnValue = body[c].v

\* C7 witness: a nested object returned after logging has come back.
C7_Witness ==
    \E c \in Calls :
        /\ body[c].k = "return" /\ body[c].v.t = "obj"
        /\ body[c].logs = <<TextHi, <<>>>>
        /\ pc[c] = "done"
        /\ settled[c].kind = "resolved"
        /\ settled[c].result.returnValue = body[c].v

\* C8 as stated: for any body that logs text and then returns, the returned
\* stdout is that text, one line break after each call, and holds no sentinel
\* token.
C8_Original ==
    \A c \in Calls :
        (body[c].k = "return" /\ Did(c, "return")) =>
            /\ completion[c].result.stdout = Logged(body[c])
            /\ ~HasToken(completion[c].result.stdout)

\* C8 amended: for any body that logs text none of which holds the sentinel
\* token and then returns, the returned stdout is that text, one line break
\* after each call, followed by what the work the body left behind logged
\* after the return, with nothing left of the sentinel line; a body that
\* logs nothing, then or later, yields the empty stdout.
C8_StdoutIsLoggedText ==
    \A c \in Calls :
        (body[c].k = "return" /\ NoDecoy(body[c]) /\ Did(c, "return")) =>
            /\ completion[c].result.stdout =
                  Logged(body[c]) \o LateOutput(body[c])
            /\ ~HasToken(completion[c].result.stdout)
            /\ (body[c].logs = <<>> /\ body[c].late = <<>>) =>
                  completion[c].result.stdout = <<>>

\* C8 witness: two logged texts came back as two lines, the sentinel line gone.
C8_Witness ==
    \E c \in Calls :
        /\ body[c].k = "return" /\ body[c].logs = <<TextHi, TextHi>>
        /\ body[c].late = <<>>
        /\ pc[c] = "done"
        /\ settled[c].kind = "resolved"
        /\ settled[c].result.stdout = TextHi \o <<NL>> \o TextHi \o <<NL>>
        /\ HasToken(stdout[c])

\* C9: the decoder's cleaned stdout is the raw stdout unchanged (with
\* returnValue undefined) when the raw stdout holds no sentinel token, and
\* otherwise the text before the first token followed by the text after the
\* line break that ends the payload (nothing when no line break follows).
C9_CleanedStdoutIsReference ==
    dpc = "decoded" =>
        /\ dRes.stdout = RefClean(dRaw)
        /\ ~HasToken(dRaw) => (dRes.stdout = dRaw /\ dRes.returnValue = Undefined)

\* C9 witness: a sentinel line with text before it and text after it was
\* decoded, and both texts are kept.
C9_Witness ==
    /\ dpc = "decoded"
    /\ dRaw = <<"a">> \o returnMarker \o <<"4", "2", NL, "a">>
    /\ dRes.stdout = <<"a", "a">>
    /\ dRes.returnValue = JNum(42)

\* C10: when the captured stdout holds the sentinel token and its payload
\* cannot be decoded, the call does not fail: it resolves with returnValue
\* undefined, stderr as captured and stdout without the sentinel line.
C10_DecodeFailureAbsorbed ==
    \A c \in Calls :
        (/\ Did(c, "return")
         /\ HasToken(stdout[c])
         /\ ~JsonParse(RefPayload(stdout[c])).ok) =>
            /\ completion[c] =
                  Resolved(Result(Undefined, RefClean(stdout[c]), stderr[c]))
            /\ pc[c] = "done" => settled[c] = completion[c]

\* C10 witness: a body that returned nothing made the harness print the
\* payload `undefined`, and the call resolved.
C10_Witness ==
    \E c \in Calls :
        /\ body[c].k = "return" /\ body[c].v = Undefined
        /\ body[c].logs = <<TextHi>>
        /\ pc[c] = "done"
        /\ HasToken(stdout[c])
        /\ RefPayload(stdout[c]) = <<"u", "n", "d", "e", "f", "i", "n", "e", "d">>
        /\ settled[c] = Resolved(Result(Undefined, TextHi \o <<NL>>, <<>>))

\* the 0-based offsets at which the sentinel token stands in s
TokenOffsets(s) == {i \in 0..Len(s) : OccursAt(s, returnMarker, i)}

\* C11 as stated: only the first sentinel token is honoured, and every later
\* occurrence of the token remains in the returned stdout.
C11_Original ==
    (dpc = "decoded" /\ HasToken(dRaw)) =>
        /\ dRes.returnValue = ParseOrUndefined(RefPayload(dRaw))
        /\ Cardinality(TokenOffsets(dRes.stdout)) >=
              Cardinality(TokenOffsets(dRaw)) - 1

\* C11 amended: only the first sentinel token is honoured: the payload is
\* taken from it, only its line is excised, and every later occurrence that
\* stands after the end of that line remains verbatim, at its place, in the
\* returned stdout and does not affect returnValue.
C11_FirstTokenOnly ==
    (dpc = "decoded" /\ HasToken(dRaw)) =>
        LET first == FirstToken(dRaw)
            e == SentinelLineEnd(dRaw)
        IN  /\ dRes.returnValue = ParseOrUndefined(RefPayload(dRaw))
            /\ Len(dRes.stdout) = Len(dRaw) - (e - first)
            /\ \A k \in 1..first : dRes.stdout[k] = dRaw[k]
            /\ \A k \in (e + 1)..Len(dRaw) : dRes.stdout[k - (e - first)] = dRaw[k]
            /\ \A i \in TokenOffsets(dRaw) :
                  i >= e => OccursAt(dRes.stdout, returnMarker, i - (e - first))

\* C11 witness: a sentinel line with payload 42 followed by a second token
\* with payload 7: 42 is returned and the second token stays in stdout.
C11_Witness ==
    /\ dpc = "decoded"
    /\ dRaw = returnMarker \o <<"4", "2", NL>> \o returnMarker \o <<"7">>
    /\ dRes.returnValue = JNum(42)
    /\ dRes.stdout = returnMarker \o <<"7">>

(***************************************************************************)
(* Reference definitions for the lines of a text, stated by the positions  *)
(* of its line breaks, and for the import rule, stated by the shape of a   *)
(* line; they share nothing with the splitting loop.                       *)
(***************************************************************************)
BreakPositions(code) == {i \in 1..Len(code) : code[i] = NL}

\* the position of the k-th line break; 0 for k = 0, one past the end when
\* the text has fewer than k line breaks
NthBreak(code, k) ==
    IF k = 0 THEN 0
    ELSE IF k > Cardinality(BreakPositions(code)) THEN Len(code) + 1
    ELSE CHOOSE i \in BreakPositions(code) :
            Cardinality({j \in BreakPositions(code) : j <= i}) = k

RefLines(code) ==
    [k \in 1..(Cardinality(BreakPositions(code)) + 1) |->
        SubSeq(code, NthBreak(code, k - 1) + 1, NthBreak(code, k) - 1)]

RefIsImportLine(line) ==
    \E n \in 0..Len(line) :
        /\ \A k \in 1..n : line[k] \in RegexWs
        /\ Len(line) >= n + Len(WordImport) + 1
        /\ SubSeq(line, n + 1, n + Len(WordImport)) = WordImport
        /\ line[n + Len(WordImport) + 1] \in RegexWs

RefIsBodyLine(line) == ~RefIsImportLine(line)

RefImportLines(code) == SelectSeq(RefLines(code), RefIsImportLine)
RefBodyLines(code) == SelectSeq(RefLines(code), RefIsBodyLine)

\* the 1-based positions of line at which a quote followed by ~/ stands
AliasPositions(line) ==
    {i \in 1..Len(line) :
        /\ line[i] \in {"'", "\""}
        /\ i + 2 <= Len(line)
        /\ line[i + 1] = "~"
        /\ line[i + 2] = "/"}

RECURSIVE RefExpandSameQuote(_, _, _)
\* the line from position i on, every quote followed by ~/ replaced by the
\* same quote, the home directory and /
RefExpandSameQuote(line, i, home) ==
    IF i > Len(line) THEN <<>>
    ELSE IF i \in AliasPositions(line)
         THEN <<line[i]>> \o home \o <<"/">> \o
              RefExpandSameQuote(line, i + 3, home)
         ELSE <<line[i]>> \o RefExpandSameQuote(line, i + 1, home)

\* C12: the splitter partitions the lines of the code: the imports are the
\* lines that begin, after leading whitespace, with `import` and whitespace,
\* in their order (each expanded), the body lines are all the other lines,
\* in their order and as written, and no line is in both or in neither.
C12_SplitterPartitions ==
    spc = "split" =>
        LET imp == RefImportLines(sCode)
        IN  /\ Len(sOut.imports) = Len(imp)
            /\ \A i \in 1..Len(imp) : sOut.imports[i] = Expand(imp[i], sHome)
            /\ sOut.codeLines = RefBodyLines(sCode)
            /\ Len(sOut.imports) + Len(sOut.codeLines) = Len(RefLines(sCode))

\* C12 witness: a dynamic import, an indented import and a plain
\* import were split: two imports in order, the other line in the body.
C12_Witness ==
    /\ spc = "split"
    /\ sCode = JoinNL(<<LineDynamic, LinePlain, LineSingle>>)
    /\ Len(sOut.imports) = 2
    /\ sOut.imports[1] = LinePlain
    /\ sOut.codeLines = <<LineDynamic>>

\* C13 as stated: in every import line, every quote followed by ~/ is
\* replaced by the same quote, the home directory and /, so that a
\* double-quoted path stays double-quoted.
C13_SameQuoteKept ==
    spc = "split" =>
        \A i \in 1..Len(sOut.imports) :
            sOut.imports[i] =
                RefExpandSameQuote(RefImportLines(sCode)[i], 1, sHome)

\* C14: the expansion changes nothing but the alias in import lines: the
\* harness is the template around the imports and the body lines, the body
\* lines being those of the code character for character, and an import
\* line in which no quote is followed by ~/ is emitted as written.
C14_OnlyAliasAltered ==
    spc = "split" =>
        LET imp == RefImportLines(sCode)
        IN  /\ sOut.harness =
                  HarnessHead \o JoinNL(sOut.imports) \o HarnessOpen \o
                  JoinNL(RefBodyLines(sCode)) \o HarnessClose
            /\ \A i \in 1..Len(imp) :
                  AliasPositions(imp[i]) = {} => sOut.imports[i] = imp[i]

\* C14 witness: a body line holding '~/ and a placeholder, between
\* whitespace, came out as written next to an import whose alias was
\* expanded and an import without alias.
C14_Witness ==
    /\ spc = "split"
    /\ sCode = JoinNL(<<LineSingle, LineTemplate, LinePlain>>)
    /\ sOut.codeLines = <<LineTemplate>>
    /\ sOut.imports[1] # LineSingle
    /\ sOut.imports[2] = LinePlain
    /\ \E i \in 0..Len(sOut.harness) : OccursAt(sOut.harness, LineTemplate, i)

\* the event a occurs in the history of call c, and before every b in it
Precedes(c, a, b) ==
    \E i \in 1..Len(events[c]) :
        /\ events[c][i] = a
        /\ \A j \in 1..Len(events[c]) : events[c][j] = b => i < j

Count(c, e) == Cardinality({i \in 1..Len(events[c]) : events[c][i] = e})

\* C15 as stated: the harness is synthesized first, then the workspace is
\* created, it is destroyed before the call settles, and exactly one
\* workspace is created per request.
C15_Original ==
    \A c \in Calls :
        /\ Did(c, "mkdtemp") => Precedes(c, "synthesize", "mkdtemp")
        /\ settled[c] # Pending =>
              /\ Count(c, "mkdtemp") = 1
              /\ tmpDir[c] \notin dirs

\* C15 amended: the workspace is created first and the harness is
\* synthesized after it, inside the workspace's lifetime; the removal of the
\* workspace is attempted before the call settles, once; at most one
\* workspace is created per request, and exactly one unless its creation
\* fails.
C15_WorkspaceNesting ==
    \A c \in Calls :
        /\ Did(c, "synthesize") =>
              /\ Precedes(c, "mkdtemp", "synthesize")
              /\ ~RmAttempted(c) => tmpDir[c] \in dirs
        /\ Count(c, "mkdtemp") <= 1
        /\ Count(c, "rm-ok") + Count(c, "rm-failed") <= 1
        /\ settled[c] # Pending =>
              /\ Count(c, "mkdtemp") + Count(c, "mkdtemp-failed") = 1
              /\ Did(c, "mkdtemp") =>
                    /\ RmAttempted(c)
                    /\ Precedes(c, "mkdtemp", "rm-ok")
                    /\ Precedes(c, "mkdtemp", "rm-failed")
                    /\ events[c][Len(events[c])] \in {"rm-ok", "rm-failed"}

\* C15 witness: a call went through creation, synthesis, write, launch,
\* drain, return and removal, in that order, and settled with the workspace
\* gone.
C15_Witness ==
    \E c \in Calls :
        /\ settled[c].kind = "resolved"
        /\ events[c] = <<"execute", "mkdtemp", "synthesize", "write", "spawn",
                         "drain", "return", "rm-ok">>
        /\ tmpDir[c] \notin dirs

InUse(c) == Did(c, "mkdtemp") /\ ~Did(c, "rm-ok")

C17_Separate ==
    \A c \in Calls :
        /\ \A d \in Calls \ {c} :
              (InUse(c) /\ InUse(d)) => tmpDir[c] # tmpDir[d]
        /\ InUse(c) => tmpDir[c] \in dirs
        /\ Count(c, "spawn") <= 1
        /\ child[c] # "none" =>
              (Count(c, "spawn") = 1 /\ launch[c].file = TmpLoc(tmpDir[c]))
        /\ Did(c, "drain") =>
              (stdout[c] = ChildStdout(body[c]) /\ stderr[c] = ChildStderr(body[c]))
        /\ Did(c, "return") =>
              completion[c] =
                  Return(ChildStdout(body[c]), ChildStderr(body[c]), exitCode[c])

\* what holds of every step: a directory or a harness file that appears or
\* disappears is that of the call that took the step
C17_Frame ==
    \A p \in Paths :
        ((p \in dirs) # (p \in dirs') \/ (p \in files) # (p \in files')) =>
            \E c \in Calls : pc'[c] # pc[c] /\ tmpDir'[c] = p

C18_ChildRunsInCallerDir ==
    \A c \in Calls :
        /\ ~Did(c, "spawn") => launch[c] = NoLaunch
        /\ Did(c, "spawn") =>
              /\ launch[c].cwd = workDir[c]
              /\ workDir[c] \in WorkDirs
              /\ launch[c].cwd # TmpLoc(tmpDir[c])
              /\ launch[c].file = TmpLoc(tmpDir[c])
              /\ launch[c].file.kind = "tmp"

\* C18 witness: a child is running in the project directory the caller
\* passed, on the harness file written in the workspace.
C18_Witness ==
    \E c \in Calls :
        /\ child[c] = "running"
        /\ workDir[c] = Dir("work", "project")
        /\ launch[c].cwd = Dir("work", "project")
        /\ launch[c].file = TmpLoc(tmpDir[c])
        /\ tmpDir[c] \in files

\* C19 as stated: the home directory used to expand the alias equals the
\* HOME given to the child, also when the HOME of the host changes between
\* the rewrite and the launch.
C19_HomeAgrees ==
    \A c \in Calls :
        Did(c, "spawn") => launch[c].home = homeDir[c]

\* C20: the returned stderr is the text the child wrote to its error
\* stream, whether it holds the sentinel token or not; a token in stderr
\* sets no returnValue.
C20_StderrUntouched ==
    \A c \in Calls :
        Did(c, "return") =>
            /\ completion[c].result.stderr = stderr[c]
            /\ stderr[c] = ChildStderr(body[c])
            /\ ~HasToken(stdout[c]) =>
                  completion[c].result.returnValue = Undefined

\* C20 witness: a body threw an error whose message is a sentinel line; the
\* call resolved with the message still in stderr and no returnValue.
C20_Witness ==
    \E c \in Calls :
        /\ pc[c] = "done"
        /\ body[c].k = "throw" /\ body[c].msg = TextDecoy
        /\ settled[c].kind = "resolved"
        /\ settled[c].result.stderr = ErrorPrefix \o TextDecoy \o <<NL>>
        /\ HasToken(settled[c].result.stderr)
        /\ settled[c].result.returnValue = Undefined

\* C21 as stated: a call that launched a child settles only after the child
\* has closed both streams and exited, so that a child that never exits
\* keeps the call pending and its workspace in place.
C21_SettlesOnlyAfterExit ==
    \A c \in Calls :
        (Did(c, "spawn") /\ settled[c] # Pending) =>
            (child[c] = "exited" /\ Did(c, "drain"))

\* C26: the steps of a call occur in the order synthesize (split and wrap),
\* write, launch, drain, decode, remove: the child is launched only after
\* the write of the harness file has succeeded, the output is decoded only
\* after both streams are drained and the child has exited, and the removal
\* comes after the decoding whenever the output is decoded.
C26_StepOrder ==
    \A c \in Calls :
        /\ Did(c, "write") => Precedes(c, "synthesize", "write")
        /\ Did(c, "spawn") =>
              /\ Precedes(c, "write", "spawn")
              /\ ~Did(c, "write-failed")
        /\ Did(c, "drain") => Precedes(c, "spawn", "drain")
        /\ Did(c, "return") =>
              /\ Precedes(c, "drain", "return")
              /\ child[c] = "exited"
              /\ Precedes(c, "return", "rm-ok")
              /\ Precedes(c, "return", "rm-failed")
        /\ RmAttempted(c) => events[c][Len(events[c])] \in {"rm-ok", "rm-failed"}

\* C26 witness: a call whose body threw went through all the steps in order
\* and its removal failed last.
C26_Witness ==
    \E c \in Calls :
        /\ body[c].k = "throw"
        /\ events[c] = <<"execute", "mkdtemp", "synthesize", "write", "spawn",
                         "drain", "return", "rm-failed">>
        /\ child[c] = "exited"

\* C28: the harness file is written once: a call writes code.ts at most
\* once, into its own workspace, before the launch, and no step after the
\* write puts a file into the workspace.
C28_WriteOnce ==
    \A c \in Calls :
        /\ Count(c, "write") + Count(c, "write-failed") <= 1
        /\ (Did(c, "write") /\ ~RmAttempted(c)) => tmpDir[c] \in files
        /\ (Did(c, "mkdtemp") /\ ~Did(c, "write")) => tmpDir[c] \notin files
        /\ Did(c, "rm-ok") => tmpDir[c] \notin files

\* C28 witness: the child of a call has exited and the output is decoded;
\* the one write of the call is behind it and the file is still there.
C28_Witness ==
    \E c \in Calls :
        /\ pc[c] = "finally"
        /\ Did(c, "return")
        /\ Count(c, "write") = 1
        /\ tmpDir[c] \in files

\* C29 as stated: on every path on which a child was launched, the removal
\* of the workspace begins only after the child has exited.
C29_RemovedOnlyAfterExit ==
    \A c \in Calls :
        (Did(c, "spawn") /\ RmAttempted(c)) => child[c] = "exited"

\* C30: a body that completes with the value undefined makes the harness
\* print a sentinel line whose payload is the text undefined; the payload
\* does not decode, so returnValue is undefined, as for a body that threw,
\* and the line is excised from stdout all the same.
C30_UndefinedPayload ==
    \A c \in Calls :
        LET b == body[c]
        IN  /\ (b.k = "return" /\ b.v = Undefined /\ Did(c, "drain")) =>
                  /\ OccursAt(stdout[c],
                              returnMarker \o
                              <<"u", "n", "d", "e", "f", "i", "n", "e", "d", NL>>,
                              Len(Logged(b)))
                  /\ ~JsonParse(<<"u", "n", "d", "e", "f", "i", "n", "e", "d">>).ok
            /\ (b.k = "return" /\ b.v = Undefined /\ NoDecoy(b) /\ Did(c, "return")) =>
                  /\ completion[c].result.returnValue = Undefined
                  /\ completion[c].result.stdout = Logged(b) \o LateOutput(b)
            /\ (b.k = "throw" /\ NoDecoy(b) /\ Did(c, "return")) =>
                  completion[c].result.returnValue = Undefined

\* C30 witness: a body logged a text and ended without a return; the call
\* resolved with that text alone in stdout and no returnValue.
C30_Witness ==
    \E c \in Calls :
        /\ body[c] = BodyLate(<<TextHi>>, Undefined, <<>>)
        /\ settled[c].kind = "resolved"
        /\ settled[c].result.returnValue = Undefined
        /\ settled[c].result.stdout = TextHi \o <<NL>>
        /\ Len(stdout[c]) = Len(TextHi) + 1 + Len(returnMarker) + 10

\* the members JSON.parse finds in the text of a response; <<>> if the text
\* is not the JSON text of an object
ParsedMembers(text) ==
    LET parsed == JsonParse(text)
    IN  IF parsed.ok /\ parsed.v.t = "obj" THEN parsed.v.o ELSE <<>>

HasKey(members, k) == \E i \in 1..Len(members) : members[i].k = k

\* the value of key k among the members; Undefined if the key is missing
ValueOf(members, k) ==
    IF HasKey(members, k)
    THEN (CHOOSE m \in {members[i] : i \in 1..Len(members)} : m.k = k).v
    ELSE Undefined

\* C22: the handler never rejects.  When runSkillCode resolves, the response
\* has no error flag and its text is JSON that reads back as the result
\* (stdout, stderr, and returnValue when it is defined); when runSkillCode
\* rejects, the response has isError true and its text is
\* `Error executing code: ` followed by the message of the Error, or by the
\* string form of a value that is not an Error.
C22_HandlerNeverRejects ==
    tpc = "responded" =>
        /\ tResp.kind = "resolved"
        /\ tOutcome.kind = "resolved" =>
              LET r == tOutcome.result
                  ms == ParsedMembers(tResp.result.text)
              IN  /\ tResp.result.isError = "absent"
                  /\ JsonParse(tResp.result.text).ok
                  /\ ValueOf(ms, KeyStdout) = JStr(r.stdout)
                  /\ ValueOf(ms, KeyStderr) = JStr(r.stderr)
                  /\ ValueOf(ms, KeyReturnValue) = r.returnValue
                  /\ \A i \in 1..Len(ms) :
                        ms[i].k \in {KeyReturnValue, KeyStdout, KeyStderr}
        /\ tOutcome.kind = "rejected" =>
              LET e == tOutcome.error
                  said == SliceFrom(tResp.result.text, Len(ErrorExecutingCode))
              IN  /\ tResp.result.isError = "true"
                  /\ OccursAt(tResp.result.text, ErrorExecutingCode, 0)
                  /\ e.err => said = e.message
                  /\ (~e.err /\ e.value.t = "str") => said = e.value.s
                  /\ (~e.err /\ e.value.t = "num") => said = IntToText(e.value.n)
                  /\ (~e.err /\ e.value = Undefined) =>
                        said = <<"u", "n", "d", "e", "f", "i", "n", "e", "d">>

\* C22 witness: runSkillCode rejected with an Error and the handler
\* resolved with the flagged message.
C22_Witness ==
    /\ tpc = "responded"
    /\ tOutcome = Rejected(ErrorObject(<<"E", "N", "O", "S", "P", "C">>))
    /\ tResp = Resolved(ToolResponse("true",
                   ErrorExecutingCode \o <<"E", "N", "O", "S", "P", "C">>))

\* C23 as stated: the JSON text of every successful response is an object
\* with the three keys returnValue, stdout and stderr, also when returnValue
\* is undefined.
C23_ThreeKeysAlways ==
    (tpc = "responded" /\ tOutcome.kind = "resolved") =>
        LET ms == ParsedMembers(tResp.result.text)
        IN  /\ HasKey(ms, KeyReturnValue)
            /\ HasKey(ms, KeyStdout)
            /\ HasKey(ms, KeyStderr)

\* C24: the description of a request is not used: what runSkillCode passes
\* to the executor is the code of the request and the working directory of
\* the server, the same for every description and for none, and so is the
\* harness synthesized from it.
C24_DescriptionUnused ==
    tpc \in {"called", "settled", "responded"} =>
        /\ tArgs.code = tParams.code
        /\ tArgs.workingDir \in WorkDirs
        /\ \A d \in Descriptions :
              RunSkillCode(Params(tParams.code, d), tArgs.workingDir) = tArgs
        /\ \A h \in Homes :
              Synthesis(tArgs.code, h) = Synthesis(tParams.code, h)

\* C24 witness: a request with a description was served; the executor was
\* given its code and nothing of the description.
C24_Witness ==
    /\ tpc = "responded"
    /\ tParams = Params(LineSingle, Description(<<"s", "u", "m">>))
    /\ tArgs.code = LineSingle
    /\ tOutcome.kind = "resolved"

\* C25: each call of registerRunSkillCodeTool registers one tool and no
\* other: its name is run-skill-code, its description mentions TypeScript
\* and its input schema has the property code.
C25_RegistersOneTool ==
    /\ Len(tools) = regCalls
    /\ \A i \in 1..Len(tools) :
          /\ tools[i].name = "run-skill-code"
          /\ Contains(tools[i].description,
                      <<"T", "y", "p", "e", "S", "c", "r", "i", "p", "t">>)
          /\ "code" \in tools[i].schema

\* C25 witness: registerRunSkillCodeTool was called once, the server has one
\* tool, and the tool is being called.
C25_Witness ==
    /\ regCalls = 1
    /\ Len(tools) = 1
    /\ tools[1].name = "run-skill-code"
    /\ tpc = "called"

\* the characters the script writes to stream s, in order
Written(sc, s) ==
    LET IsOf(w) == w.s = s
        ws == SelectSeq(sc, IsOf)
    IN  [i \in 1..Len(ws) |-> ws[i].ch]

\* C27: the two streams are read concurrently and the wait for the exit
\* begins only after both reads have ended: for a child that writes to the
\* two streams in any order, more than a pipe holds, and then exits, the
\* adapter and the child are never both blocked before the adapter is done,
\* and the adapter has the whole text of both streams when it waits.
C27_NoDeadlockAllText ==
    /\ ppc \in {"drain", "wait"} =>
          \/ CanKidWrite
          \/ CanKidExit
          \/ \E s \in Streams : CanRead(s)
          \/ CanAllDrained
          \/ CanExited
    /\ ppc \in {"wait", "done"} =>
          /\ \A s \in Streams : eof[s] /\ got[s] = Written(script, s)
          /\ todo = <<>>
          /\ kid = "exited"

\* C27 witness: a child wrote to stderr more than the pipe holds, then to
\* stdout, and the adapter is done with both texts whole.
C27_Witness ==
    /\ ppc = "done"
    /\ script = <<Write("err", "b"), Write("err", "b"), Write("out", "a")>>
    /\ got["err"] = <<"b", "b">>
    /\ got["out"] = <<"a">>
    /\ Len(Written(script, "err")) > PipeCap

====
